---- MODULE Spec2Model ----
(***************************************************************************)
(* A model of memoryalloc.c: a first-fit allocator that keeps a singly     *)
(* linked list of block headers in an arena grown and shrunk with sbrk(),  *)
(* and serialises malloc() and free() with one global mutex.               *)
(*                                                                         *)
(* Addresses and sizes are WordBits-bit unsigned integers (size_t and      *)
(* pointers have the same width); NULL is address 0.  A header occupies    *)
(* HeaderSize bytes and is followed by its payload.  The header fields are *)
(* kept as a record per header address (hdr); payload bytes are kept per   *)
(* address (mem).  Memory given back to the environment by a shrinking     *)
(* sbrk() is dropped from hdr and mem: its contents are indeterminate      *)
(* afterwards, and memory obtained again holds arbitrary bytes.            *)
(*                                                                         *)
(* Each thread is a sequential caller: it is idle or inside one call, and  *)
(* held[t] is the set of payload addresses the caller currently owns.      *)
(***************************************************************************)
EXTENDS Integers, Sequences, FiniteSets, TLC

\* ------------------------------------------------------------- bounds
\* width of size_t / of a pointer, scaled down from 64
WordBits == 8
\* number of calling threads
NumThreads == 2
\* largest request the caller of SpecSeq makes
MaxSize == 2
\* bytes the environment lets the arena grow by (the data segment limit)
ArenaBytes == 78
\* payload bytes are 0..MaxByte
MaxByte == 1

\* ---------------------------------------------------------- constants
\* sizeof(header_t): size_t + unsigned + pointer, padded, on LP64
HeaderSize == 24
\* the program break before the first sbrk()
InitBrk == 16

NULL == 0
Word == 2^WordBits
Threads == 1..NumThreads
Byte == 0..MaxByte
NoThread == 0
\* a size_t converted to sbrk()'s intptr_t parameter
Signed(x) == IF x >= Word \div 2 THEN x - Word ELSE x

VARIABLES
    head,       \* header_t *head
    tail,       \* header_t *tail
    hdr,        \* header address -> [size, is_free, next]
    mem,        \* payload address -> byte
    brk,        \* the program break, sbrk(0)
    lock,       \* malloc_lock: NoThread or its holder
    pc,         \* per thread: where it is in the code
    op,         \* per thread: the outermost call it is in
    size,       \* per thread: malloc's size / calloc's total / realloc's size
    block,      \* per thread: free's and realloc's block argument
    mblock,     \* per thread: malloc's block, the result of sbrk()
    reblock,    \* per thread: calloc's block / realloc's reblock
    held,       \* per thread: the payload addresses the caller owns
    ev          \* the last step's observable event (a history variable)

vars == <<head, tail, hdr, mem, brk, lock, pc, op, size, block, mblock,
          reblock, held, ev>>
heap == <<head, tail, hdr, mem, brk>>

\* ------------------------------------------------------------ helpers
\* an event: what happened, in which thread, the pointer and the number it
\* is about, and a second number x
Ev(o, t, p, n, x) == [op |-> o, t |-> t, p |-> p, n |-> n, x |-> x]
NoEv == Ev("none", NoThread, NULL, 0, 0)

\* header + 1 and (header_t *)block - 1
PayloadOf(h) == h + HeaderSize
HeaderOf(p) == p - HeaderSize

\* the payload addresses of a block of capacity n whose header is at h
PayloadAddrs(h, n) == (h + HeaderSize) .. (h + HeaderSize + n - 1)

\* the blocks reached from cur by following next, in order (fuel bounds the
\* walk so that it is defined on any list)
RECURSIVE Chain(_, _, _)
Chain(cur, hd, fuel) ==
    IF cur = NULL \/ cur \notin DOMAIN hd \/ fuel = 0 THEN <<>>
    ELSE <<cur>> \o Chain(hd[cur].next, hd, fuel - 1)

List == Chain(head, hdr, Cardinality(DOMAIN hdr))

\* check_for_block without the is_free test
RECURSIVE check_for_block_any(_, _, _)
check_for_block_any(curr, hd, n) ==
    IF curr = NULL THEN NULL
    ELSE IF hd[curr].size >= n THEN curr
    ELSE check_for_block_any(hd[curr].next, hd, n)

\* check_for_block as a best-fit search: the free block of least sufficient
\* capacity, the earliest among equals
check_for_block_best(curr, hd, n) ==
    LET c == Chain(curr, hd, Cardinality(DOMAIN hd))
        fit == {i \in 1..Len(c) : hd[c[i]].is_free # 0 /\ hd[c[i]].size >= n}
    IN  IF fit = {} THEN NULL
        ELSE c[CHOOSE i \in fit : \A j \in fit :
                    \/ hd[c[i]].size < hd[c[j]].size
                    \/ hd[c[i]].size = hd[c[j]].size /\ i <= j]

\* check_for_block without the test of size
RECURSIVE check_for_block_free(_, _, _)
check_for_block_free(curr, hd, n) ==
    IF curr = NULL THEN NULL
    ELSE IF hd[curr].is_free # 0 THEN curr
    ELSE check_for_block_free(hd[curr].next, hd, n)

\* check_for_block: the first free block from curr with capacity >= n
RECURSIVE check_for_block(_, _, _)
check_for_block(curr, hd, n) ==
    IF curr = NULL THEN NULL
    ELSE IF hd[curr].is_free # 0 /\ hd[curr].size >= n THEN curr
    ELSE check_for_block(hd[curr].next, hd, n)

\* UnlinkTail without tmp->metadata.next = NULL
RECURSIVE UnlinkTailKeepLink(_, _, _)
UnlinkTailKeepLink(tmp, hd, tl) ==
    IF tmp = NULL THEN <<hd, tl>>
    ELSE IF hd[tmp].next = tl
         THEN <<hd, tmp>>
         ELSE UnlinkTailKeepLink(hd[tmp].next, hd, tl)

\* free()'s loop over the list: the block whose next is tl becomes the tail.
\* Gives the new <<hdr, tail>>.
RECURSIVE UnlinkTail(_, _, _)
UnlinkTail(tmp, hd, tl) ==
    IF tmp = NULL THEN <<hd, tl>>
    ELSE IF hd[tmp].next = tl
         THEN <<[hd EXCEPT ![tmp].next = NULL], tmp>>
         ELSE UnlinkTail(hd[tmp].next, hd, tl)

\* f without the addresses from b on (memory returned to the environment)
Below(f, b) == [a \in {x \in DOMAIN f : x < b} |-> f[a]]

Idle(t) == pc[t] = "idle"

ResetLocals(t) ==
    /\ op' = [op EXCEPT ![t] = "none"]
    /\ size' = [size EXCEPT ![t] = 0]
    /\ block' = [block EXCEPT ![t] = NULL]
    /\ reblock' = [reblock EXCEPT ![t] = NULL]

\* ---------------------------------------------------------------- Init
Init ==
    /\ head = NULL
    /\ tail = NULL
    /\ hdr = <<>>
    /\ mem = <<>>
    /\ brk = InitBrk
    /\ lock = NoThread
    /\ pc = [t \in Threads |-> "idle"]
    /\ op = [t \in Threads |-> "none"]
    /\ size = [t \in Threads |-> 0]
    /\ block = [t \in Threads |-> NULL]
    /\ mblock = [t \in Threads |-> NULL]
    /\ reblock = [t \in Threads |-> NULL]
    /\ held = [t \in Threads |-> {}]
    /\ ev = NoEv

\* -------------------------------------------------------------- malloc
\* MallocEntry without the test of size
MallocEntryNoCheck(t, o, b, s) ==
    /\ UNCHANGED <<heap, lock, mblock, held, reblock>>
    /\ pc' = [pc EXCEPT ![t] = "m_lock"]
    /\ op' = [op EXCEPT ![t] = o]
    /\ size' = [size EXCEPT ![t] = s]
    /\ block' = [block EXCEPT ![t] = b]
    /\ ev' = NoEv

\* malloc() up to pthread_mutex_lock, called by operation o with block
\* argument b (realloc's) : a zero size returns NULL at once
MallocEntry(t, o, b, s) ==
    /\ UNCHANGED <<heap, lock, mblock, held>>
    /\ IF s = 0
       THEN /\ UNCHANGED <<pc, op, size, block, reblock>>
            /\ ev' = Ev("invalid", t, NULL, s, 0)
       ELSE /\ pc' = [pc EXCEPT ![t] = "m_lock"]
            /\ op' = [op EXCEPT ![t] = o]
            /\ size' = [size EXCEPT ![t] = s]
            /\ block' = [block EXCEPT ![t] = b]
            /\ UNCHANGED reblock
            /\ ev' = NoEv

\* MallocReturn for a realloc() that calls free(block) also when malloc()
\* returned NULL
MallocReturnFreeAnyway(t, p) ==
    LET inner == op[t] = "realloc" /\ block[t] # NULL
        cont == IF inner THEN (IF p = NULL THEN "f_lock" ELSE "r_copy")
                ELSE IF p # NULL /\ op[t] = "calloc" THEN "c_memset"
                ELSE "idle"
    IN  /\ pc' = [pc EXCEPT ![t] = cont]
        /\ held' = [held EXCEPT ![t] = IF p = NULL THEN @ ELSE @ \cup {p}]
        /\ mblock' = [mblock EXCEPT ![t] = NULL]
        /\ IF cont = "idle"
           THEN ResetLocals(t)
           ELSE /\ reblock' = [reblock EXCEPT ![t] = p]
                /\ UNCHANGED <<op, size, block>>

\* malloc() returns p to its caller: the application, calloc() or realloc()
MallocReturn(t, p) ==
    LET cont == IF p = NULL \/ op[t] = "malloc"
                   \/ (op[t] = "realloc" /\ block[t] = NULL)
                THEN "idle"
                ELSE IF op[t] = "calloc" THEN "c_memset" ELSE "r_copy"
    IN  /\ pc' = [pc EXCEPT ![t] = cont]
        /\ held' = [held EXCEPT ![t] = IF p = NULL THEN @ ELSE @ \cup {p}]
        /\ mblock' = [mblock EXCEPT ![t] = NULL]
        /\ IF cont = "idle"
           THEN ResetLocals(t)
           ELSE /\ reblock' = [reblock EXCEPT ![t] = p]
                /\ UNCHANGED <<op, size, block>>

\* the application calls malloc(s), s drawn from S
MallocCall(t, S) ==
    /\ Idle(t)
    /\ \E s \in S : MallocEntry(t, "malloc", NULL, s)

\* MallocLock that does not wait for the mutex
MallocLockNoWait(t) ==
    /\ pc[t] = "m_lock"
    /\ lock' = t
    /\ pc' = [pc EXCEPT ![t] = "m_search"]
    /\ ev' = NoEv
    /\ UNCHANGED <<heap, op, size, block, mblock, reblock, held>>

\* pthread_mutex_lock in malloc(): blocks until the mutex is free
MallocLock(t) ==
    /\ pc[t] = "m_lock"
    /\ lock = NoThread
    /\ lock' = t
    /\ pc' = [pc EXCEPT ![t] = "m_search"]
    /\ ev' = NoEv
    /\ UNCHANGED <<heap, op, size, block, mblock, reblock, held>>

\* total_size = sizeof(header_t) + size, in size_t
TotalSize(s) == (HeaderSize + s) % Word

\* MallocReuse without the pthread_mutex_unlock
MallocReuseLocked(t, header) ==
    /\ hdr' = [hdr EXCEPT ![header].is_free = 0]
    /\ lock' = lock
    /\ MallocReturn(t, PayloadOf(header))
    /\ ev' = Ev("reuse", t, PayloadOf(header), size[t], 0)
    /\ UNCHANGED <<head, tail, mem, brk>>

\* the first-fit search found header: it is taken
MallocReuse(t, header) ==
    /\ hdr' = [hdr EXCEPT ![header].is_free = 0]
    /\ lock' = NoThread
    /\ MallocReturn(t, PayloadOf(header))
    /\ ev' = Ev("reuse", t, PayloadOf(header), size[t], 0)
    /\ UNCHANGED <<head, tail, mem, brk>>

\* MallocGrowFail without the pthread_mutex_unlock
MallocGrowFailLocked(t) ==
    /\ lock' = lock
    /\ MallocReturn(t, NULL)
    /\ ev' = IF op[t] = "realloc" /\ block[t] # NULL
             THEN Ev("realloc_fail", t, block[t], 0, 0)
             ELSE Ev("growfail", t, NULL, 0, 0)
    /\ UNCHANGED heap

\* sbrk() returned (void *) -1
MallocGrowFail(t) ==
    /\ lock' = NoThread
    /\ MallocReturn(t, NULL)
    /\ ev' = IF op[t] = "realloc" /\ block[t] # NULL
             THEN Ev("realloc_fail", t, block[t], 0, 0)
             ELSE Ev("growfail", t, NULL, 0, 0)
    /\ UNCHANGED heap

\* sbrk(total_size) moved the break and returned the old one; the
\* environment refuses a break outside [InitBrk, InitBrk + ArenaBytes]
MallocGrow(t) ==
    LET newbrk == brk + Signed(TotalSize(size[t]))
    IN  /\ newbrk >= InitBrk
        /\ newbrk <= InitBrk + ArenaBytes
        /\ brk' = newbrk
        /\ mblock' = [mblock EXCEPT ![t] = brk]
        /\ pc' = [pc EXCEPT ![t] = "m_carve"]
        /\ ev' = NoEv
        /\ UNCHANGED <<head, tail, hdr, mem, lock, op, size, block, reblock,
                       held>>

\* the first-fit search, and on a miss the sbrk() call, which may fail
MallocSearch(t) ==
    /\ pc[t] = "m_search"
    /\ lock = t
    /\ LET header == check_for_block(head, hdr, size[t])
       IN  \/ header # NULL /\ MallocReuse(t, header)
           \/ header = NULL /\ MallocGrowFail(t)
           \/ header = NULL /\ MallocGrow(t)

\* the metadata malloc() writes on a new block
NewHeader(s) == [size |-> s, is_free |-> 0, next |-> NULL]

\* LinkAtTail without the link
LinkAtTailNone(hd, tl, header) == hd

\* if(tail) tail->metadata.next = header
LinkAtTail(hd, tl, header) ==
    IF tl # NULL THEN [hd EXCEPT ![tl].next = header] ELSE hd

\* the header is written at the old break and linked at the tail; the
\* payload obtained holds bytes of B
MallocCarve(t, B) ==
    /\ pc[t] = "m_carve"
    /\ lock = t
    /\ LET header == mblock[t]
       IN  /\ hdr' = LinkAtTail((header :> NewHeader(size[t])) @@ hdr, tail,
                             header)
           /\ \E fresh \in [PayloadAddrs(header, size[t]) -> B] :
                 mem' = fresh @@ mem
           /\ head' = IF head = NULL THEN header ELSE head
           /\ tail' = header
           /\ lock' = NoThread
           /\ MallocReturn(t, PayloadOf(header))
           /\ ev' = Ev("carve", t, PayloadOf(header), 0, 0)
           /\ UNCHANGED brk

\* ---------------------------------------------------------------- free
\* free() returns to its caller: the application or realloc()
FreeReturn(t) ==
    /\ pc' = [pc EXCEPT ![t] = "idle"]
    /\ ResetLocals(t)
    /\ UNCHANGED mblock

\* free() up to pthread_mutex_lock: a NULL block returns at once
FreeEntry(t, o, b) ==
    /\ UNCHANGED <<heap, lock, mblock, held, size, reblock>>
    /\ IF b = NULL
       THEN /\ UNCHANGED <<pc, op, block>>
            /\ ev' = Ev("free_null", t, NULL, 0, 0)
       ELSE /\ pc' = [pc EXCEPT ![t] = "f_lock"]
            /\ op' = [op EXCEPT ![t] = o]
            /\ block' = [block EXCEPT ![t] = b]
            /\ ev' = NoEv

FreeCall(t) ==
    /\ Idle(t)
    /\ \E b \in held[t] \cup {NULL} : FreeEntry(t, "free", b)

FreeLock(t) ==
    /\ pc[t] = "f_lock"
    /\ lock = NoThread
    /\ lock' = t
    /\ pc' = [pc EXCEPT ![t] = "f_check"]
    /\ ev' = NoEv
    /\ UNCHANGED <<heap, op, size, block, mblock, reblock, held>>

\* MarkFree that also merges the block with a free successor
MarkFreeCoalesce(hd, header) ==
    LET nx == hd[header].next
    IN  IF nx # NULL /\ hd[nx].is_free # 0
        THEN [hd EXCEPT ![header].is_free = 1,
                        ![header].size = @ + HeaderSize + hd[nx].size,
                        ![header].next = hd[nx].next]
        ELSE [hd EXCEPT ![header].is_free = 1]

\* header->metadata.is_free = 1
MarkFree(hd, header) == [hd EXCEPT ![header].is_free = 1]

\* ShrinkBy without the header: 0 - size
ShrinkByPayload(n) == (Word - n) % Word

\* 0 - sizeof(header_t) - size, in size_t
ShrinkBy(n) == (2 * Word - HeaderSize - n) % Word

\* the boundary test; the tail is unlinked, or the block is marked free
FreeCheck(t) ==
    /\ pc[t] = "f_check"
    /\ lock = t
    /\ LET header == HeaderOf(block[t])
           progbrk == brk
       IN  IF (block[t] + hdr[header].size) % Word = progbrk
           THEN /\ IF head = tail
                   THEN /\ head' = NULL
                        /\ tail' = NULL
                        /\ hdr' = hdr
                   ELSE LET r == UnlinkTail(head, hdr, tail)
                        IN  /\ hdr' = r[1]
                            /\ tail' = r[2]
                            /\ head' = head
                /\ pc' = [pc EXCEPT ![t] = "f_shrink"]
                /\ held' = [held EXCEPT ![t] = @ \ {block[t]}]
                /\ ev' = Ev("unlink", t, block[t], 0, 0)
                /\ UNCHANGED <<mem, brk, lock, op, size, block, mblock,
                               reblock>>
           ELSE /\ hdr' = MarkFree(hdr, header)
                /\ lock' = NoThread
                /\ held' = [held EXCEPT ![t] = @ \ {block[t]}]
                /\ FreeReturn(t)
                /\ ev' = Ev("markfree", t, block[t], 0, reblock[t])
                /\ UNCHANGED <<head, tail, mem, brk>>

\* sbrk(0 - sizeof(header_t) - size): the tail's memory is given back
FreeShrink(t) ==
    /\ pc[t] = "f_shrink"
    /\ lock = t
    /\ LET header == HeaderOf(block[t])
           newbrk == brk + Signed(ShrinkBy(hdr[header].size))
       IN  /\ brk' = newbrk
           /\ hdr' = Below(hdr, newbrk)
           /\ mem' = Below(mem, newbrk)
           /\ ev' = Ev("shrink", t, block[t], 0, reblock[t])
    /\ lock' = NoThread
    /\ FreeReturn(t)
    /\ UNCHANGED <<head, tail, held>>

\* -------------------------------------------------------------- calloc
\* total = num * esize in size_t
CallocTotal(num, esize) == (num * esize) % Word

\* an overflow test that compares the total with one factor
CallocOverflowNaive(num, esize) == CallocTotal(num, esize) < num

\* the overflow test of calloc()
CallocOverflow(num, esize) == esize # CallocTotal(num, esize) \div num

\* calloc() up to its call of malloc()
CallocEntry(t, num, esize) ==
    IF num = 0 \/ esize = 0
    THEN /\ ev' = Ev("calloc_zero", t, NULL, num, esize)
         /\ UNCHANGED <<heap, lock, pc, op, size, block, mblock, reblock, held>>
    ELSE IF CallocOverflow(num, esize)
    THEN /\ ev' = Ev("calloc_overflow", t, NULL, num, esize)
         /\ UNCHANGED <<heap, lock, pc, op, size, block, mblock, reblock, held>>
    ELSE /\ pc' = [pc EXCEPT ![t] = "m_lock"]
         /\ op' = [op EXCEPT ![t] = "calloc"]
         /\ size' = [size EXCEPT ![t] = CallocTotal(num, esize)]
         /\ ev' = Ev("calloc_malloc", t, NULL, num, esize)
         /\ UNCHANGED <<heap, lock, block, mblock, reblock, held>>

\* the application calls calloc(num, esize), both drawn from A, for a total
\* in T or one that does not fit the word
CallocCall(t, A, T) ==
    /\ Idle(t)
    /\ \E num, esize \in A :
          /\ num * esize \in T \/ num * esize >= Word
          /\ CallocEntry(t, num, esize)

\* Zeroed one byte short
ZeroedShort(m, b, n) == [a \in b .. (b + n - 2) |-> 0] @@ m

\* memset(block, 0, n) on memory m
Zeroed(m, b, n) == [a \in b .. (b + n - 1) |-> 0] @@ m

\* the bytes of m that are not zero among the n from b on
Dirty(m, b, n) == Cardinality({a \in b .. (b + n - 1) : m[a] # 0})

\* memset(block, 0, total)
CallocMemset(t) ==
    /\ pc[t] = "c_memset"
    /\ mem' = Zeroed(mem, reblock[t], size[t])
    /\ pc' = [pc EXCEPT ![t] = "idle"]
    /\ ResetLocals(t)
    /\ ev' = Ev("calloc", t, reblock[t], size[t], Dirty(mem, reblock[t], size[t]))
    /\ UNCHANGED <<head, tail, hdr, brk, lock, mblock, held>>

\* ------------------------------------------------------------- realloc
\* ReallocEntry that keeps the block only when it is strictly larger
ReallocEntryStrict(t, b, s) ==
    IF b = NULL \/ s = 0
    THEN MallocEntry(t, "realloc", NULL, s)
    ELSE IF hdr[HeaderOf(b)].size > s
    THEN /\ ev' = Ev("realloc_same", t, b, 0, 0)
         /\ UNCHANGED <<heap, lock, pc, op, size, block, mblock, reblock, held>>
    ELSE MallocEntry(t, "realloc", b, s)

\* ReallocEntry that frees the block when the size is zero
ReallocEntryFreeOnZero(t, b, s) ==
    IF b # NULL /\ s = 0
    THEN FreeEntry(t, "realloc", b)
    ELSE IF b = NULL
    THEN MallocEntry(t, "realloc", NULL, s)
    ELSE IF hdr[HeaderOf(b)].size >= s
    THEN /\ ev' = Ev("realloc_same", t, b, 0, 0)
         /\ UNCHANGED <<heap, lock, pc, op, size, block, mblock, reblock, held>>
    ELSE MallocEntry(t, "realloc", b, s)

\* realloc() up to its call of malloc()
ReallocEntry(t, b, s) ==
    IF b = NULL \/ s = 0
    THEN MallocEntry(t, "realloc", NULL, s)
    ELSE IF hdr[HeaderOf(b)].size >= s
    THEN /\ ev' = Ev("realloc_same", t, b, 0, 0)
         /\ UNCHANGED <<heap, lock, pc, op, size, block, mblock, reblock, held>>
    ELSE MallocEntry(t, "realloc", b, s)

\* the application calls realloc(b, s): b a pointer it holds or one of P
ReallocCall(t, P, S) ==
    /\ Idle(t)
    /\ \E b \in held[t] \cup P, s \in S : ReallocEntry(t, b, s)

\* Copied one byte short
CopiedShort(m, dst, src, n) ==
    [a \in dst .. (dst + n - 2) |-> m[src + (a - dst)]] @@ m

\* memcpy(dst, src, n) on memory m
Copied(m, dst, src, n) ==
    [a \in dst .. (dst + n - 1) |-> m[src + (a - dst)]] @@ m

\* memcpy(reblock, block, header->metadata.size), then free(block) begins
ReallocCopy(t) ==
    /\ pc[t] = "r_copy"
    /\ mem' = Copied(mem, reblock[t], block[t], hdr[HeaderOf(block[t])].size)
    /\ pc' = [pc EXCEPT ![t] = "f_lock"]
    /\ ev' = Ev("realloc_copy", t, reblock[t], 0, 0)
    /\ UNCHANGED <<head, tail, hdr, brk, lock, op, size, block, mblock,
                   reblock, held>>

\* ------------------------------------------------------- the application
\* the owner of a block stores a byte in its payload
Write(t) ==
    /\ Idle(t)
    /\ \E p \in held[t] :
          \E a \in PayloadAddrs(HeaderOf(p), hdr[HeaderOf(p)].size), v \in Byte :
             /\ mem[a] # v
             /\ mem' = [mem EXCEPT ![a] = v]
    /\ ev' = NoEv
    /\ UNCHANGED <<head, tail, hdr, brk, lock, pc, op, size, block, mblock,
                   reblock, held>>

\* ---------------------------------------------------------------- Next
\* Spec: NumThreads concurrent callers.  Requests are of 1 or 2 bytes, so
\* that a request can fit or miss a free block; memory obtained from the
\* environment reads as zero and payloads are not written: the
\* interleavings, not the sizes and contents, fill the state space.
ConcSizes == {1, 2}

Next ==
    \E t \in Threads :
        \/ MallocCall(t, ConcSizes)
        \/ MallocLock(t)
        \/ MallocSearch(t)
        \/ MallocCarve(t, {0})
        \/ FreeCall(t)
        \/ FreeLock(t)
        \/ FreeCheck(t)
        \/ FreeShrink(t)
        \/ CallocCall(t, ConcSizes, ConcSizes)
        \/ CallocMemset(t)
        \/ ReallocCall(t, {}, ConcSizes)
        \/ ReallocCopy(t)

Spec == Init /\ [][Next]_vars

\* SpecFair: Spec under fair scheduling.  A thread inside a call that can
\* take a step eventually takes one; a thread blocked in
\* pthread_mutex_lock gets the mutex if it is free again and again.  The
\* application is not obliged to call.
Locking(t) == MallocLock(t) \/ FreeLock(t)

Running(t) ==
    \/ MallocSearch(t)
    \/ MallocCarve(t, {0})
    \/ FreeCheck(t)
    \/ FreeShrink(t)
    \/ CallocMemset(t)
    \/ ReallocCopy(t)

SpecFair ==
    /\ Init
    /\ [][Next]_vars
    /\ \A t \in Threads : WF_vars(Running(t)) /\ SF_vars(Locking(t))

\* SpecSeq: one caller, requests of 1..MaxSize bytes, arbitrary bytes in
\* memory obtained from the environment, and payload writes by the owner.
SeqThreads == {1}
SeqSizes == 1..MaxSize

NextSeq ==
    \E t \in SeqThreads :
        \/ MallocCall(t, SeqSizes)
        \/ MallocLock(t)
        \/ MallocSearch(t)
        \/ MallocCarve(t, Byte)
        \/ FreeCall(t)
        \/ FreeLock(t)
        \/ FreeCheck(t)
        \/ FreeShrink(t)
        \/ CallocCall(t, SeqSizes, SeqSizes)
        \/ CallocMemset(t)
        \/ ReallocCall(t, {}, SeqSizes)
        \/ ReallocCopy(t)
        \/ Write(t)

SpecSeq == Init /\ [][NextSeq]_vars

\* SpecCalloc: one call of calloc() in the initial state, for every pair of
\* nonzero arguments of the word, up to its call of malloc().
WordSizes == 1..(Word - 1)

NextCalloc ==
    /\ ev = NoEv
    /\ \E t \in SeqThreads : CallocCall(t, WordSizes, WordSizes)

SpecCalloc == Init /\ [][NextCalloc]_vars

\* SpecArgs: one caller whose arguments include the invalid ones: a size or
\* a count of zero, and the NULL pointer for realloc.
ArgSizes == 0..MaxSize

NextArgs ==
    \E t \in SeqThreads :
        \/ MallocCall(t, ArgSizes)
        \/ MallocLock(t)
        \/ MallocSearch(t)
        \/ MallocCarve(t, {0})
        \/ FreeCall(t)
        \/ FreeLock(t)
        \/ FreeCheck(t)
        \/ FreeShrink(t)
        \/ CallocCall(t, ArgSizes, ArgSizes)
        \/ CallocMemset(t)
        \/ ReallocCall(t, {NULL}, ArgSizes)
        \/ ReallocCopy(t)

SpecArgs == Init /\ [][NextArgs]_vars

\* SpecHuge: one caller of malloc() and free() whose sizes include two for
\* which sizeof(header_t) + size does not fit the word: the largest size,
\* whose total wraps to HeaderSize - 1, and the size whose total is the
\* two's complement of HeaderSize + 1.  A header is kept as one record per
\* address, which describes the memory only while no block reaches beyond
\* the break; once one does and the call that made it has returned, what
\* the program does is undefined and SpecHuge does not follow it.
HugeSizes == ConcSizes \cup {Word - 1, Word - 2 * HeaderSize - 1}

Intact == \A h \in DOMAIN hdr : h + HeaderSize + hdr[h].size <= brk

NextHuge ==
    /\ Intact \/ lock # NoThread
    /\ \E t \in SeqThreads :
          \/ MallocCall(t, HugeSizes)
          \/ MallocLock(t)
          \/ MallocSearch(t)
          \/ MallocCarve(t, {0})
          \/ FreeCall(t)
          \/ FreeLock(t)
          \/ FreeCheck(t)
          \/ FreeShrink(t)

SpecHuge == Init /\ [][NextHuge]_vars

\* ------------------------------------------------------------ properties
\* every payload address some caller holds
AllHeld == UNION {held[t] : t \in Threads}

\* the block at header h is in the list
InList(h) == \E i \in 1..Len(List) : List[i] = h

\* C1: no payload address is held by two callers at the same time, every
\* address held is that of a block of the list marked not free, and malloc
\* never hands out an address that some caller already holds; this covers
\* realloc between its malloc and its free, where the caller holds both the
\* old and the new block.
C1_ExclusiveOwnership ==
    /\ [](\A t, u \in Threads : t # u => held[t] \cap held[u] = {})
    /\ [](\A p \in AllHeld :
            InList(HeaderOf(p)) /\ hdr[HeaderOf(p)].is_free = 0)
    /\ [][\A t \in Threads :
            \A p \in held'[t] \ held[t] : p \notin AllHeld]_vars

\* a caller is inside realloc, between the copy and the lock of free,
\* holding the old and the new block, and malloc has just handed another
\* caller a third address
C1_Witness ==
    \E t, u \in Threads :
        /\ t # u
        /\ op[t] = "realloc"
        /\ pc[t] = "f_lock"
        /\ {block[t], reblock[t]} \subseteq held[t]
        /\ block[t] # reblock[t]
        /\ ev.op \in {"reuse", "carve"}
        /\ ev.t = u
        /\ ev.p \in held[u]
        /\ ev.p \notin held[t]

\* the first block of the list, from head, that is free with capacity >= n
FitIdx(n) ==
    {i \in 1..Len(List) : hdr[List[i]].is_free # 0 /\ hdr[List[i]].size >= n}
FirstFit(n) ==
    IF FitIdx(n) = {} THEN NULL
    ELSE List[CHOOSE i \in FitIdx(n) : \A j \in FitIdx(n) : i <= j]

\* C2: when some block of the list is free with capacity >= size, malloc
\* returns the payload address of the first such block in list order, sets
\* only that block's is_free to 0, and leaves every size and next link,
\* head, tail, the payloads and the break unchanged.
C2_FirstFitReuse ==
    [][\A t \in Threads :
        (pc[t] = "m_search" /\ pc'[t] # "m_search"
            /\ FirstFit(size[t]) # NULL) =>
            LET h == FirstFit(size[t])
            IN  /\ ev' = Ev("reuse", t, PayloadOf(h), size[t], 0)
                /\ PayloadOf(h) \in held'[t]
                /\ hdr' = [hdr EXCEPT ![h].is_free = 0]
                /\ UNCHANGED <<head, tail, brk, mem>>]_vars

\* malloc(n) has reused the head block, of capacity above n, although a
\* later free block has capacity exactly n
C2_Witness ==
    /\ ev.op = "reuse"
    /\ HeaderOf(ev.p) = head
    /\ hdr[head].size > ev.n
    /\ \E i \in 2..Len(List) :
          hdr[List[i]].is_free # 0 /\ hdr[List[i]].size = ev.n

\* C3: free of the block whose payload ends at the break unlinks exactly
\* that block, the last of the list: a sole block leaves head and tail NULL,
\* otherwise tail becomes its predecessor and the predecessor's next NULL;
\* then the break goes down by exactly HeaderSize + size, once: the blocks
\* that remain, a free new tail included, keep their headers.
C3_TailRelease ==
    [][\A t \in Threads :
        LET p == block[t]
            h == HeaderOf(p)
            n == Len(List)
        IN  /\ (pc[t] = "f_check" /\ pc'[t] # "f_check"
                    /\ p + hdr[h].size = brk) =>
                /\ pc'[t] = "f_shrink"
                /\ List[n] = h
                /\ List' = SubSeq(List, 1, n - 1)
                /\ IF n = 1
                   THEN head' = NULL /\ tail' = NULL
                   ELSE /\ head' = head
                        /\ tail' = List[n - 1]
                        /\ hdr'[List[n - 1]].next = NULL
                /\ \A i \in 1..(n - 1) :
                      /\ hdr'[List[i]].size = hdr[List[i]].size
                      /\ hdr'[List[i]].is_free = hdr[List[i]].is_free
                      /\ i < n - 1 => hdr'[List[i]].next = hdr[List[i]].next
                /\ brk' = brk
                /\ p \notin held'[t]
            /\ (pc[t] = "f_shrink" /\ pc'[t] # "f_shrink") =>
                /\ brk' = brk - (HeaderSize + hdr[h].size)
                /\ h \notin DOMAIN hdr'
                /\ List' = List
                /\ \A i \in 1..n : hdr'[List[i]] = hdr[List[i]]
                /\ head' = head
                /\ tail' = tail
                /\ lock' = NoThread
                /\ pc'[t] = "idle"]_vars

\* the tail has been given back, and the block it exposed as the new tail
\* is free, in the list, and ends at the break
C3_Witness ==
    /\ ev.op = "shrink"
    /\ tail # NULL
    /\ InList(tail)
    /\ hdr[tail].is_free = 1
    /\ tail + HeaderSize + hdr[tail].size = brk

\* C4: free of a block whose payload does not end at the break only sets
\* that block's is_free to 1: head, tail, every next link and size, every
\* other is_free, the payloads and the break are unchanged and the list
\* keeps its blocks, adjacent free ones included; free(NULL) changes nothing.
C4_MarkFreeOnly ==
    [][/\ \A t \in Threads :
            LET p == block[t]
                h == HeaderOf(p)
            IN  (pc[t] = "f_check" /\ pc'[t] # "f_check"
                    /\ p + hdr[h].size # brk) =>
                    /\ ev'.op = "markfree"
                    /\ hdr' = [hdr EXCEPT ![h].is_free = 1]
                    /\ UNCHANGED <<head, tail, brk, mem>>
                    /\ List' = List
                    /\ p \notin held'[t]
                    /\ lock' = NoThread
       /\ ev'.op = "free_null" =>
            UNCHANGED <<heap, lock, pc, op, size, block, mblock, reblock,
                        held>>]_vars

\* a block has been marked free next to another free block, and both are
\* still in the list
C4_Witness ==
    /\ ev.op = "markfree"
    /\ \E i \in 1..(Len(List) - 1) :
          /\ hdr[List[i]].is_free = 1
          /\ hdr[List[i + 1]].is_free = 1
          /\ HeaderOf(ev.p) \in {List[i], List[i + 1]}

\* C5: when no free block fits and sbrk fails, malloc returns NULL (the
\* caller gets no address), head, tail, every header, the payloads and the
\* break are as before, and the lock is released with the caller idle
\* again, so that malloc can be called again.
C5_GrowthFailure ==
    [][\A t \in Threads :
        (pc[t] = "m_search" /\ pc'[t] \notin {"m_search", "m_carve"}
            /\ FirstFit(size[t]) = NULL) =>
            /\ ev'.op \in {"growfail", "realloc_fail"}
            /\ ev'.t = t
            /\ UNCHANGED heap
            /\ held' = held
            /\ lock = t
            /\ lock' = NoThread
            /\ pc'[t] = "idle"]_vars

\* malloc has failed to grow the arena while the list holds a free block,
\* too small for the request; the lock is free
C5_Witness ==
    /\ ev.op = "growfail"
    /\ pc[ev.t] = "idle"
    /\ lock = NoThread
    /\ \E i \in 1..Len(List) : hdr[List[i]].is_free = 1

\* thread t is inside a realloc that has to move its block
Moving(t) == op[t] = "realloc" /\ block[t] # NULL

\* C6: when a growing realloc(p, size) gets NULL from malloc, realloc
\* returns NULL and p's block is still held, in the list with is_free = 0,
\* with its size and payload bytes unchanged: it is neither freed nor
\* copied over.
C6_FailedResizeKeepsOriginal ==
    [][\A t \in Threads :
        LET p == block[t]
            h == HeaderOf(p)
        IN  (Moving(t) /\ pc[t] = "m_search"
                /\ pc'[t] \notin {"m_search", "m_carve"}
                /\ FirstFit(size[t]) = NULL) =>
                /\ size[t] > hdr[h].size
                /\ ev' = Ev("realloc_fail", t, p, 0, 0)
                /\ pc'[t] = "idle"
                /\ held'[t] = held[t]
                /\ p \in held'[t]
                /\ List' = List
                /\ InList(h)
                /\ hdr'[h] = hdr[h]
                /\ hdr'[h].is_free = 0
                /\ \A a \in PayloadAddrs(h, hdr[h].size) : mem'[a] = mem[a]]_vars

\* realloc has failed on a block that is still held and not free, and whose
\* first byte is not zero
C6_Witness ==
    /\ ev.op = "realloc_fail"
    /\ ev.p \in held[ev.t]
    /\ InList(HeaderOf(ev.p))
    /\ hdr[HeaderOf(ev.p)].is_free = 0
    /\ mem[ev.p] # 0

\* C7: a growing realloc(p, size) whose malloc succeeded holds a new block
\* q # p of capacity >= size; p's bytes stay as they were at the call until
\* p is released; the copy makes the first old-capacity bytes of q equal
\* p's, and they stay so until realloc returns q; p is released by free:
\* marked free, or, if its payload ends at the break then, unlinked and the
\* break lowered by HeaderSize + its size.
C7_GrowingResize ==
    /\ [](\A t \in Threads :
            (Moving(t) /\ pc[t] \in {"r_copy", "f_lock", "f_check", "f_shrink"}) =>
                LET p == block[t]
                    q == reblock[t]
                IN  /\ q # NULL
                    /\ q # p
                    /\ q \in held[t]
                    /\ InList(HeaderOf(q))
                    /\ hdr[HeaderOf(q)].is_free = 0
                    /\ hdr[HeaderOf(q)].size >= size[t]
                    /\ size[t] > hdr[HeaderOf(p)].size
                    /\ pc[t] # "r_copy" =>
                          \A i \in 0..(hdr[HeaderOf(p)].size - 1) :
                              mem[q + i] = mem[p + i])
    /\ [][\A t \in Threads :
            LET p == block[t]
                q == reblock[t]
                h == HeaderOf(p)
                n == hdr[h].size
            IN  Moving(t) =>
                /\ pc'[t] # "idle" =>
                      \A i \in 0..(n - 1) : mem'[p + i] = mem[p + i]
                /\ (pc[t] = "r_copy" /\ pc'[t] # "r_copy") =>
                      \A i \in 0..(n - 1) : mem'[q + i] = mem[p + i]
                /\ pc[t] \in {"f_lock", "f_check", "f_shrink"} =>
                      \A i \in 0..(n - 1) : mem'[q + i] = mem[q + i]
                /\ (pc[t] = "f_check" /\ pc'[t] # "f_check") =>
                      /\ p \notin held'[t]
                      /\ q \in held'[t]
                      /\ IF p + n = brk
                         THEN pc'[t] = "f_shrink" /\ ~InList(h)'
                         ELSE /\ hdr'[h].is_free = 1
                              /\ pc'[t] = "idle"
                              /\ ev' = Ev("markfree", t, p, 0, q)
                /\ (pc[t] = "f_shrink" /\ pc'[t] # "f_shrink") =>
                      /\ brk' = brk - (HeaderSize + n)
                      /\ q \in held'[t]
                      /\ pc'[t] = "idle"
                      /\ ev' = Ev("shrink", t, p, 0, q)]_vars

\* realloc has returned a block it reused, lower in the arena, whose first
\* byte is not zero, after unlinking the old block and lowering the break
C7_Witness ==
    /\ ev.op = "shrink"
    /\ ev.x # NULL
    /\ ev.x \in held[ev.t]
    /\ ev.x < ev.p
    /\ mem[ev.x] # 0
    /\ pc[ev.t] = "idle"

\* C8: for all nonzero num and esize of the word, calloc returns NULL
\* without calling malloc and without any change of the allocator exactly
\* when num * esize does not fit the word; otherwise it calls
\* malloc(num * esize).
C8_OverflowRejection ==
    /\ ev.op \in {"none", "calloc_overflow", "calloc_malloc"}
    /\ ev.op = "calloc_overflow" =>
          /\ ev.n * ev.x >= Word
          /\ ev.p = NULL
          /\ pc[ev.t] = "idle"
          /\ op[ev.t] = "none"
          /\ held[ev.t] = {}
          /\ lock = NoThread
          /\ heap = <<NULL, NULL, <<>>, <<>>, InitBrk>>
    /\ ev.op = "calloc_malloc" =>
          /\ ev.n * ev.x < Word
          /\ pc[ev.t] = "m_lock"
          /\ op[ev.t] = "calloc"
          /\ size[ev.t] = ev.n * ev.x

\* calloc has rejected a product that wraps to a total not below either
\* factor
C8_Witness ==
    /\ ev.op = "calloc_overflow"
    /\ CallocTotal(ev.n, ev.x) >= ev.n
    /\ CallocTotal(ev.n, ev.x) >= ev.x

\* C9: when calloc(num, esize) returns a block, each of its first
\* num * esize bytes is zero, whatever the payload held before.
C9_ZeroFill ==
    /\ [](ev.op = "calloc" =>
            /\ ev.p # NULL
            /\ ev.p \in held[ev.t]
            /\ hdr[HeaderOf(ev.p)].size >= ev.n
            /\ \A a \in ev.p .. (ev.p + ev.n - 1) : mem[a] = 0)
    /\ [][\A t \in Threads :
            /\ (ev'.op = "calloc_malloc" /\ ev'.t = t /\ pc[t] = "idle") =>
                  size'[t] = ev'.n * ev'.x
            /\ (pc[t] = "c_memset" /\ pc'[t] # "c_memset") =>
                  /\ ev'.op = "calloc"
                  /\ ev'.p = reblock[t]
                  /\ ev'.n = size[t]
                  /\ pc'[t] = "idle"
            /\ (op[t] = "calloc" /\ op'[t] = "calloc") => size'[t] = size[t]]_vars

\* calloc has returned a reused block of 2 bytes that were both nonzero
C9_Witness ==
    /\ ev.op = "calloc"
    /\ ev.n = 2
    /\ ev.x = 2
    /\ tail # HeaderOf(ev.p)

\* C10: when no free block fits and sbrk succeeds, malloc writes one new
\* header at the address the break had before the call, with the requested
\* size, is_free = 0 and next NULL; head becomes it only if head was NULL;
\* the old tail's next, if any, is linked to it; tail becomes it; the
\* address returned is HeaderSize past it; no other header's size or
\* is_free changes.
C10_CarveOnMiss ==
    /\ [](\A t \in Threads :
            pc[t] = "m_carve" =>
                lock = t /\ mblock[t] + HeaderSize + size[t] = brk)
    /\ [][\A t \in Threads :
            LET h == mblock[t]
            IN  /\ (pc[t] = "m_search" /\ pc'[t] = "m_carve") =>
                      /\ FirstFit(size[t]) = NULL
                      /\ mblock'[t] = brk
                      /\ brk' = brk + HeaderSize + size[t]
                      /\ UNCHANGED <<head, tail, hdr, mem>>
                /\ (pc[t] = "m_carve" /\ pc'[t] # "m_carve") =>
                      /\ h \notin DOMAIN hdr
                      /\ DOMAIN hdr' = DOMAIN hdr \cup {h}
                      /\ hdr'[h] = [size |-> size[t], is_free |-> 0,
                                    next |-> NULL]
                      /\ head' = (IF head = NULL THEN h ELSE head)
                      /\ tail # NULL => hdr'[tail].next = h
                      /\ tail' = h
                      /\ ev' = Ev("carve", t, h + HeaderSize, 0, 0)
                      /\ (h + HeaderSize) \in held'[t]
                      /\ brk' = brk
                      /\ \A g \in DOMAIN hdr :
                            /\ hdr'[g].size = hdr[g].size
                            /\ hdr'[g].is_free = hdr[g].is_free
                            /\ g # tail => hdr'[g].next = hdr[g].next]_vars

\* malloc has carved a new tail after a block that is free but too small
C10_Witness ==
    /\ ev.op = "carve"
    /\ tail = HeaderOf(ev.p)
    /\ head # tail
    /\ \E i \in 1..(Len(List) - 1) :
          /\ hdr[List[i]].is_free = 1
          /\ hdr[List[i]].size < hdr[tail].size
          /\ hdr[List[i]].next = tail

\* C11: realloc(p, size) of a held p with 0 < size <= the capacity recorded
\* for p returns p and changes nothing: head, tail, every header, the
\* payloads, the break, the lock and the caller's state are as before; and
\* realloc enters malloc for a held block only with a size above its
\* capacity.
C11_NoShrinkOnResizeDown ==
    [][\A t \in Threads :
        /\ (ev'.op = "realloc_same" /\ ev'.t = t) =>
              /\ ev'.p \in held[t]
              /\ UNCHANGED <<heap, lock, pc, op, size, block, mblock, reblock,
                             held>>
        /\ (pc[t] = "idle" /\ op'[t] = "realloc" /\ block'[t] # NULL) =>
              /\ block'[t] \in held[t]
              /\ size'[t] > hdr[HeaderOf(block'[t])].size]_vars

\* realloc has returned, unchanged, a block of capacity above 1 whose first
\* byte is not zero
C11_Witness ==
    /\ ev.op = "realloc_same"
    /\ ev.p \in held[ev.t]
    /\ hdr[HeaderOf(ev.p)].size > 1
    /\ hdr[HeaderOf(ev.p)].is_free = 0
    /\ mem[ev.p] # 0

\* what a step of Allocate(size[t]) past its size check does, whoever the
\* caller is: take the lock; reuse the first fit; fail to grow; grow; carve
AllocateEffect(t) ==
    LET h == FirstFit(size[t])
        n == mblock[t]
    IN  \/ /\ pc[t] = "m_lock"
           /\ pc'[t] = "m_search"
           /\ lock = NoThread
           /\ lock' = t
           /\ UNCHANGED <<heap, held>>
        \/ /\ pc[t] = "m_search"
           /\ h # NULL
           /\ hdr' = [hdr EXCEPT ![h].is_free = 0]
           /\ UNCHANGED <<head, tail, mem, brk>>
           /\ held' = [held EXCEPT ![t] = @ \cup {PayloadOf(h)}]
           /\ ev' = Ev("reuse", t, PayloadOf(h), size[t], 0)
           /\ lock' = NoThread
           /\ pc'[t] = "idle"
        \/ /\ pc[t] = "m_search"
           /\ h = NULL
           /\ UNCHANGED <<heap, held>>
           /\ ev' = Ev("growfail", t, NULL, 0, 0)
           /\ lock' = NoThread
           /\ pc'[t] = "idle"
        \/ /\ pc[t] = "m_search"
           /\ h = NULL
           /\ brk' = brk + HeaderSize + size[t]
           /\ mblock'[t] = brk
           /\ UNCHANGED <<head, tail, hdr, mem, held, lock>>
           /\ pc'[t] = "m_carve"
        \/ /\ pc[t] = "m_carve"
           /\ hdr'[n] = [size |-> size[t], is_free |-> 0, next |-> NULL]
           /\ head' = (IF head = NULL THEN n ELSE head)
           /\ tail' = n
           /\ (tail # NULL => hdr'[tail].next = n)
           /\ brk' = brk
           /\ held' = [held EXCEPT ![t] = @ \cup {PayloadOf(n)}]
           /\ ev' = Ev("carve", t, PayloadOf(n), 0, 0)
           /\ lock' = NoThread
           /\ pc'[t] = "idle"

\* C12: realloc(NULL, n) and realloc(p, 0) do what malloc(n) and malloc(0)
\* do from the same state: realloc enters nothing but malloc, with block
\* NULL whenever the pointer is NULL or the size zero; a zero size returns
\* NULL with no variable changed, so that p stays held, listed and not
\* free; and every later step of a call of malloc made by realloc with
\* block NULL has the effect of the same step of a call of malloc made by
\* the application.
C12_ResizeAsAllocate ==
    [][\A t \in Threads :
        /\ (pc[t] = "idle" /\ op'[t] = "realloc") =>
              /\ pc'[t] = "m_lock"
              /\ size'[t] > 0
              /\ (block'[t] # NULL => block'[t] \in held[t])
              /\ UNCHANGED <<heap, lock, held>>
        /\ (ev'.op = "invalid" /\ ev'.t = t) =>
              /\ ev'.p = NULL
              /\ UNCHANGED <<heap, lock, pc, op, size, block, mblock, reblock,
                             held>>
              /\ \A p \in held'[t] :
                    InList(HeaderOf(p))' /\ hdr'[HeaderOf(p)].is_free = 0
        /\ (op[t] \in {"malloc", "realloc"} /\ block[t] = NULL
                /\ pc[t] # "idle" /\ pc'[t] # pc[t]) =>
              /\ AllocateEffect(t)
              /\ (pc'[t] = "idle" => op'[t] = "none")]_vars

\* realloc(NULL, n) holds the lock inside malloc and is about to reuse a
\* free block, the caller holding another block
C12_Witness ==
    \E t \in Threads :
        /\ op[t] = "realloc"
        /\ block[t] = NULL
        /\ pc[t] = "m_search"
        /\ FirstFit(size[t]) # NULL
        /\ held[t] # {}

\* C13: malloc(0), calloc(0, e) and calloc(c, 0) return NULL with no
\* variable of the allocator or of the caller changed: the lock is not
\* taken and sbrk not called; no call passes the size check of malloc with
\* size zero, and calloc calls malloc only with both arguments nonzero.
C13_InvalidSizes ==
    /\ [](\A t \in Threads :
            pc[t] \in {"m_lock", "m_search", "m_carve"} => size[t] > 0)
    /\ [][/\ ev'.op \in {"invalid", "calloc_zero"} =>
                /\ ev'.p = NULL
                /\ UNCHANGED <<heap, lock, pc, op, size, block, mblock,
                               reblock, held>>
          /\ ev'.op = "calloc_zero" => (ev'.n = 0 \/ ev'.x = 0)
          /\ ev'.op \in {"calloc_malloc", "calloc_overflow"} =>
                (ev'.n > 0 /\ ev'.x > 0)]_vars

\* calloc(c, 0) with c > 0 has returned NULL while the list holds a free
\* block and the lock is free
C13_Witness ==
    /\ ev.op = "calloc_zero"
    /\ ev.n > 0
    /\ ev.x = 0
    /\ lock = NoThread
    /\ FirstFit(1) # NULL

\* C17: when no free block fits and sbrk succeeds, malloc(size) raises the
\* break by exactly HeaderSize + size as a sum of integers: the amount is
\* not below size and the break is not lowered; and the size recorded in
\* the new header does not exceed the memory between its payload address
\* and the break.
C17_GrowthDoesNotWrap ==
    [][\A t \in Threads :
        /\ (pc[t] = "m_search" /\ pc'[t] = "m_carve") =>
              /\ brk' = brk + HeaderSize + size[t]
              /\ brk' - brk >= size[t]
              /\ brk' >= brk
        /\ (pc[t] = "m_carve" /\ pc'[t] # "m_carve") =>
              hdr'[mblock[t]].size <= brk' - PayloadOf(mblock[t])]_vars

\* C14: whenever no thread holds the lock, a non-NULL tail's payload ends
\* at the break (tail + HeaderSize + its size = brk), and with an empty
\* list the break has its initial value.
C14_TailEndsAtBreak ==
    lock = NoThread =>
        /\ tail # NULL => tail + HeaderSize + hdr[tail].size = brk
        /\ List = <<>> => brk = InitBrk

\* C15: in every state the blocks of the list tile the arena: each block's
\* header and payload lie inside it, the next block's header starts where
\* the previous payload ends, and no two blocks overlap, free or not.
C15_BlocksTileArena ==
    LET n == Len(List)
        End(i) == List[i] + HeaderSize + hdr[List[i]].size
    IN  /\ \A i \in 1..n : InitBrk <= List[i] /\ End(i) <= brk
        /\ \A i \in 1..(n - 1) : End(i) = List[i + 1]
        /\ \A i, j \in 1..n :
              i # j => (End(i) <= List[j] \/ End(j) <= List[i])

\* C16: whenever no thread holds the lock, head is NULL iff tail is NULL
\* iff there is no block; otherwise the chain of next from head visits
\* every block once, at strictly increasing addresses, ends at tail, and
\* tail's next is NULL.
C16_ListWellFormed ==
    lock = NoThread =>
        LET n == Len(List)
        IN  /\ (head = NULL) <=> (tail = NULL)
            /\ (head = NULL) <=> (DOMAIN hdr = {})
            /\ n = Cardinality(DOMAIN hdr)
            /\ \A i \in 1..n : List[i] \in DOMAIN hdr
            /\ \A i \in 1..(n - 1) : List[i] < List[i + 1]
            /\ n > 0 => (List[n] = tail /\ hdr[tail].next = NULL)

\* two threads each hold a block of a list of three blocks, one of them
\* just marked free, and no thread holds the lock
C16_Witness ==
    /\ lock = NoThread
    /\ ev.op = "markfree"
    /\ Len(List) = 3
    /\ \E i \in 1..3 : hdr[List[i]].is_free = 1
    /\ \E t, u \in Threads : t # u /\ held[t] # {} /\ held[u] # {}

\* a step in which malloc called by t hands out a block, by reuse or carve
HandsOut(t) ==
    /\ pc[t] \in {"m_search", "m_carve"}
    /\ pc'[t] \notin {"m_search", "m_carve"}
    /\ ev'.op \in {"reuse", "carve"}

\* C18 as stated: the size recorded in a block in use equals the size
\* argument of the malloc call that handed it out last, by carve or by
\* reuse, and does not change while the block is in use.
C18_LiveSizeIsRequested ==
    [][/\ \A t \in Threads :
            HandsOut(t) => hdr'[HeaderOf(ev'.p)].size = size[t]
       /\ \A h \in DOMAIN hdr \cap DOMAIN hdr' :
            hdr'[h].is_free = 0 => hdr'[h].size = hdr[h].size]_vars

\* C18 as amended: the size recorded in a block is the size argument of the
\* malloc call that carved it and never changes afterwards; a block in use
\* has a recorded size of at least the size argument of the malloc call
\* that handed it out last, and on reuse it may be larger.
C18_LiveSizeCoversRequest ==
    [][/\ \A t \in Threads :
            HandsOut(t) =>
                /\ hdr'[HeaderOf(ev'.p)].is_free = 0
                /\ hdr'[HeaderOf(ev'.p)].size >= size[t]
                /\ ev'.op = "carve" => hdr'[HeaderOf(ev'.p)].size = size[t]
                /\ ev'.op = "reuse" =>
                      hdr'[HeaderOf(ev'.p)].size = hdr[HeaderOf(ev'.p)].size
       /\ \A h \in DOMAIN hdr \cap DOMAIN hdr' :
            hdr'[h].size = hdr[h].size]_vars

\* malloc(n) has handed out, by reuse, a block in use whose recorded size is
\* above n
C18_Witness ==
    /\ ev.op = "reuse"
    /\ ev.p \in held[ev.t]
    /\ hdr[HeaderOf(ev.p)].is_free = 0
    /\ hdr[HeaderOf(ev.p)].size > ev.n

\* thread t is inside a section between pthread_mutex_lock and
\* pthread_mutex_unlock
InLocked(t) == pc[t] \in {"m_search", "m_carve", "f_check", "f_shrink"}

\* C19: at most one thread is inside a locked section and it holds the
\* lock; head, tail, the break and the headers change only in a step of the
\* thread that holds the lock, taken inside its locked section, where the
\* search and the boundary query also are; free keeps the lock from its
\* boundary query to its sbrk, and nothing of the list or the break changes
\* in between.
C19_LockDiscipline ==
    /\ [](\A t, u \in Threads : (InLocked(t) /\ InLocked(u)) => t = u)
    /\ [](\A t \in Threads : InLocked(t) <=> lock = t)
    /\ [][<<head, tail, hdr, brk>>' # <<head, tail, hdr, brk>> =>
            \E t \in Threads :
                /\ lock = t
                /\ InLocked(t)
                /\ pc'[t] # pc[t]
                /\ \A u \in Threads \ {t} : pc'[u] = pc[u]]_vars
    /\ [][\A t \in Threads :
            /\ (pc[t] = "f_check" /\ pc'[t] = "f_shrink") => lock' = t
            /\ (pc[t] = "f_shrink" /\ pc'[t] = "f_shrink") =>
                  (lock' = t /\ UNCHANGED <<head, tail, hdr, brk>>)]_vars

\* a thread of free has unlinked the tail and is about to lower the break,
\* holding the lock, while another thread waits in malloc for the lock
\* with a request that no free block fits
C19_Witness ==
    \E t, u \in Threads :
        /\ pc[t] = "f_shrink"
        /\ lock = t
        /\ pc[u] = "m_lock"
        /\ FirstFit(size[u]) = NULL

====
